---- MODULE Spec2Model ----
(***************************************************************************)
(* The link lifecycle of the short-links service: the links table (Store), *)
(* the Redis cache in front of it, the request handlers of                 *)
(* api/v1/endpoints/links.py with the LinksService and LinksRepository     *)
(* calls they make, and the two background sweepers.                       *)
(*                                                                         *)
(* A request is a process that takes one step per database statement and   *)
(* one per synchronous stretch of cache work between two statements; its   *)
(* session commits when the handler has returned (db/__init__.py,          *)
(* get_async_db_session) and is dropped when the handler raised.  A        *)
(* statement reads the committed table (no isolation level is configured); *)
(* the rows a session has written stay locked until it commits.  Each step *)
(* is an operator from the world it reads (the table, the cache, the id    *)
(* sequence and the request's own frame) to the worlds it can leave: Spec  *)
(* runs a handler's steps to the end in one action (SpecNoUpdate does the  *)
(* same without PUT), SpecConc takes them one at a time, interleaved with  *)
(* the steps of the two sweepers, and SpecPair interleaves the requests of *)
(* two clients.  SpecSweep runs the sweeper tasks of two instances of the  *)
(* application against one Store, their passes failing and cancelled;      *)
(* SpecLifespan is one instance from startup to shutdown, with the         *)
(* fairness of the event loop.                                             *)
(*                                                                         *)
(* Time is counted in ticks of five minutes: the default cache lifetime    *)
(* (300 s) and the unused-link threshold (5 min) are one tick each.        *)
(***************************************************************************)
EXTENDS Integers, FiniteSets, Sequences, TLC

\* ------------------------------------------------------------- bounds
MaxTime == 2
MaxRows == 2
MaxClicks == 2
NumCodes == 1
NumUrls == 2

\* ------------------------------------------------- program constants
\* RedisSettings.EXPIRES_IN_SECONDS = 5 * 60, in ticks
EXPIRES_IN_SECONDS == 1
\* LinksServiceSettings.UNUSED_LINKS_THRESHOLD = 5 (minutes), in ticks
UNUSED_LINKS_THRESHOLD == 1
\* LinksServiceSettings.GENERATE_SHORT_CODE_RETRIES
GENERATE_SHORT_CODE_RETRIES == 5

\* ------------------------------------------------------------ domains
AllCodes == <<"a", "b", "c", "d">>
AllUrls == <<"x", "y", "z", "w">>
Codes == {AllCodes[i] : i \in 1..NumCodes}
\* the keys of the Cache: the codes the clients' requests name and one
\* more, for the links that are made for the sweepers
Keys == {AllCodes[i] : i \in 1..(NumCodes + 1)}
Urls == {AllUrls[i] : i \in 1..NumUrls}
Users == {"alice", "bob"}
\* created_by = None: a link created without a token
NoUser == "None"
\* a NULL timestamp
NoTime == -1
Procs == {1, 2}
\* the two background tasks of the application
Sweepers == {"expired", "unused"}
\* the same two tasks of a second instance of the application, run
\* against the same Store and Cache
Replicas == {"expired_2", "unused_2"}
Tasks == Sweepers \cup Replicas

VARIABLES now, links, next_id, cache, req, sweep

vars == <<now, links, next_id, cache, req, sweep>>

\* ------------------------------------------------------------- Store
\* One row of the links table.  The primary key is (link_id, short_code)
\* with link_id drawn from a sequence: short_code alone is not unique.
Link(id, short_code, original_url, created_by, expires_at) ==
  [link_id |-> id, short_code |-> short_code, original_url |-> original_url,
   created_at |-> now, updated_at |-> NoTime, created_by |-> created_by,
   clicks |-> 0, last_used_at |-> NoTime, expires_at |-> expires_at,
   is_active |-> TRUE]

\* The projection of a row that is cached and returned by get_link.
LinkInDB(link) ==
  [short_code |-> link.short_code, original_url |-> link.original_url,
   created_at |-> link.created_at, created_by |-> link.created_by,
   clicks |-> link.clicks, last_used_at |-> link.last_used_at,
   expires_at |-> link.expires_at]

NoLink == [short_code |-> "None"]

\* A session's uncommitted writes: the ids of the rows it replaces or
\* deletes (and so holds locked) and the row versions it adds.
NoTx == [del |-> {}, put |-> {}]

Ids(rows) == {r.link_id : r \in rows}

\* A Store without row locks.  With it in the place of LockedByOthers a
\* statement writes rows another session has written and not committed.
NoLocks(own) == {}

\* The rows a session other than the one holding `own` has locked: a
\* statement that writes one of them waits for that session to end.
LockedByOthers(own) ==
  UNION ({req[q].tx.del : q \in Procs} \cup {sweep[s].tx.del : s \in Tasks}) \ own

\* A commit that persists one of the rows written and loses the others.
CommittedInPart(table, tx) ==
  IF tx.put = {} THEN table
  ELSE LET one == CHOOSE l \in tx.put : TRUE
       IN {l \in table : l.link_id # one.link_id} \cup {one}

\* session.commit()
Committed(table, tx) == {l \in table : l.link_id \notin tx.del} \cup tx.put

\* A lookup that finds no row.  With it in the place of ActiveRows the
\* duplicate-alias check lets a second record in.
NoRows(table, short_code) == {}

\* A lookup that leaves out is_active.  With it in the place of
\* ActiveRows a deactivated record is found and served.
AnyRows(table, short_code) == {l \in table : l.short_code = short_code}

\* select(Link).where(Link.short_code == short_code, Link.is_active == True)
ActiveRows(table, short_code) ==
  {l \in table : l.short_code = short_code /\ l.is_active}

\* ------------------------------------------------------------- Cache
NoEntry == [present |-> FALSE]

Entry(link, ttl) == [present |-> TRUE, link |-> link, until |-> now + ttl]

\* LinkInDB.model_validate_json accepts the entry: its original_url is a
\* URL, which the text "None" is not.
model_validate_json(entry) == entry.present /\ entry.link.original_url # "None"

\* LinksRepository.get_original_link_from_cache: redis get, then
\* LinkInDB.model_validate_json; an entry that does not parse is a miss.
get_original_link_from_cache(c, short_code) ==
  IF model_validate_json(c[short_code]) THEN c[short_code].link ELSE NoLink

\* LinksRepository.set_link_to_cache: the cache after the call
set_link_to_cache(c, short_code, link) ==
  IF link.expires_at # NoTime
    THEN IF link.expires_at - now <= 0
           THEN [c EXCEPT ![short_code] = NoEntry]
           ELSE [c EXCEPT ![short_code] = Entry(link, link.expires_at - now)]
    ELSE [c EXCEPT ![short_code] = Entry(link, EXPIRES_IN_SECONDS)]

\* LinksService.set_link_to_cache: the outcomes of the call, each the
\* cache it leaves and whether it raised.  Without an expires_at the TTL
\* is the configured integer; with one it is a difference of two float
\* timestamps, passed to redis set(ex=...) as it is: the client library
\* either stores the entry or rejects the float (DataError), by version.
service_set_link_to_cache(c, short_code, link) ==
  LET expires == IF link.expires_at = NoTime THEN EXPIRES_IN_SECONDS
                 ELSE link.expires_at - now
      stored == [cache |-> [c EXCEPT ![short_code] = Entry(link, expires)],
                 raised |-> FALSE]
  IN IF expires <= 0 THEN {[cache |-> c, raised |-> FALSE]}
     ELSE IF link.expires_at = NoTime THEN {stored}
     ELSE {stored, [cache |-> c, raised |-> TRUE]}

\* redis delete
cache_delete(c, short_code) == [c EXCEPT ![short_code] = NoEntry]

\* ---------------------------------------------------------- requests
\* A request's frame: its arguments, where it stands (pc), what get_link
\* returned to the service (existing), what the last UPDATE returned
\* (returning), its session's writes (tx) and its response.
Idle ==
  [op |-> "idle", pc |-> "idle", short_code |-> "None", user |-> NoUser,
   url |-> "None", expires_at |-> NoTime, custom |-> FALSE, attempt |-> 0,
   existing |-> NoLink, returning |-> NoLink, tx |-> NoTx, status |-> 0,
   error |-> "None", result |-> NoLink, hit |-> FALSE]

Request(op, short_code, user, url, expires_at, custom) ==
  [Idle EXCEPT !.op = op, !.pc = op, !.short_code = short_code, !.user = user,
               !.url = url, !.expires_at = expires_at, !.custom = custom]

\* The request is over: only its arguments, its response and the number
\* of codes create_short_code found taken are kept.
Done(r) ==
  [r EXCEPT !.pc = "done", !.tx = NoTx, !.existing = NoLink,
            !.returning = NoLink]

\* The handler returned: the response is fixed, the session commits next.
Respond(r, status, result) ==
  [r EXCEPT !.pc = "commit", !.status = status, !.result = result]

\* The handler raised: the response is fixed, the session's writes are dropped.
Raise(r, status, error) ==
  Done([r EXCEPT !.status = status, !.error = error])

To(w, r) == [w EXCEPT !.r = r]

\* What follows LinksRepository.get_link in each caller, `link` being what
\* it returned (NoLink for None).
AfterGetLink(r, link) ==
  LET r1 == [r EXCEPT !.existing = link]
  IN CASE r.op = "create" ->
            IF link = NoLink THEN [r1 EXCEPT !.pc = "create_link"]
            ELSE IF r.custom \/ r.attempt + 1 >= GENERATE_SHORT_CODE_RETRIES
                   THEN Raise(r1, 400, "ShortLinkAlreadyExists")
                   ELSE [r1 EXCEPT !.pc = "create", !.attempt = @ + 1]
       [] r.op = "redirect" ->
            IF link = NoLink THEN Raise(r1, 404, "ShortLinkNotFound")
            ELSE [r1 EXCEPT !.pc = "record_click"]
       [] r.op = "update" ->
            IF link = NoLink THEN Raise(r1, 404, "ShortLinkNotFound")
            ELSE [r1 EXCEPT !.pc = "update_select"]
       [] r.op = "delete" ->
            IF link = NoLink THEN Raise(r1, 404, "ShortLinkNotFound")
            ELSE [r1 EXCEPT !.pc = "delete_select"]
       [] r.op = "stats" ->
            IF link = NoLink THEN Raise(r1, 404, "ShortLinkNotFound")
            ELSE IF link.created_by # NoUser /\ link.created_by # r.user
                   THEN Raise(r1, 500, "PermissionError")
                   ELSE Respond(r1, 200, link)

\* ------------------------------------------------- LinksRepository.get_link
\* get_link, cache first: a hit is returned without a Store query.
GetLinkCache(w) ==
  LET cached == get_original_link_from_cache(w.cache, w.r.short_code)
  IN {To(w, IF cached # NoLink THEN AfterGetLink(w.r, cached)
            ELSE [w.r EXCEPT !.pc = "get_link_db"])}

\* get_link_by_short_code: scalar_one_or_none() raises MultipleResultsFound
\* on two active rows, which every endpoint reports as 500.
get_link_by_short_code(w) ==
  LET rows == ActiveRows(w.links, w.r.short_code)
  IN {To(w, IF rows = {} THEN AfterGetLink(w.r, NoLink)
            ELSE IF Cardinality(rows) > 1 THEN Raise(w.r, 500, "MultipleResultsFound")
            ELSE [w.r EXCEPT !.pc = "get_link_set",
                             !.existing = LinkInDB(CHOOSE l \in rows : TRUE)])}

\* A Store hit that returns the row without caching it.  With it in the
\* place of GetLinkSet the next get_link queries the Store again.
GetLinkUncached(w) == {To(w, AfterGetLink(w.r, w.r.existing))}

\* get_link, after the Store query: the row found is cached and returned.
GetLinkSet(w) ==
  {[To(w, AfterGetLink(w.r, w.r.existing))
      EXCEPT !.cache = set_link_to_cache(w.cache, w.r.short_code, w.r.existing)]}

\* get_async_db_session: session.commit() once the handler has returned.
Commit(w) ==
  {[To(w, Done(w.r)) EXCEPT !.links = Committed(w.links, w.r.tx)]}

\* ------------------------------------------------------------ create
\* LinksService.create_short_code: with a custom alias the code is the
\* alias (create_custom_short_code); without one, each attempt draws the
\* first characters of a fresh uuid4 (_generate_short_code), never one of
\* the reserved words, which are not hexadecimal.
create_short_code(w) ==
  IF w.r.custom THEN {To(w, [w.r EXCEPT !.pc = "get_link"])}
  ELSE {To(w, [w.r EXCEPT !.pc = "get_link", !.short_code = short_code]) :
          short_code \in Codes}

\* LinksRepository.create_link: the row is added and flushed; nothing in
\* the table rejects a second row with the same short_code.
create_link(w) ==
  LET r == w.r
      link == Link(w.next_id, r.short_code, r.url, r.user, r.expires_at)
  IN {[To(w, Respond([r EXCEPT !.tx = [del |-> {}, put |-> {link}]], 200, LinkInDB(link)))
         EXCEPT !.next_id = @ + 1]}

\* ---------------------------------------------------------- redirect
\* get_short_code: the endpoint answers from the cache when it can,
\* without calling the service.  It reads the entry with the service's
\* get_original_link_from_cache, which lets the error of an entry that
\* does not parse through.
get_short_code(w) ==
  LET entry == w.cache[w.r.short_code]
  IN {To(w, IF ~entry.present THEN [w.r EXCEPT !.pc = "get_link"]
            ELSE IF ~model_validate_json(entry) THEN Raise(w.r, 500, "ValidationError")
            ELSE [Respond(w.r, 307, entry.link) EXCEPT !.hit = TRUE])}

\* A click counted twice.  With it in the place of Clicked one redirect
\* raises the counter by two.
ClickedTwice(l) == [l EXCEPT !.clicks = @ + 2, !.last_used_at = now, !.updated_at = now]

\* The row the UPDATE of record_click leaves; updated_at is the column's
\* onupdate.
Clicked(l) == [l EXCEPT !.clicks = @ + 1, !.last_used_at = now, !.updated_at = now]

\* A record_click that raises when its UPDATE does not return a row.
record_click_or_raise(w) ==
  LET rows == ActiveRows(w.links, w.r.short_code)
  IN IF rows = {} THEN {To(w, Raise(w.r, 500, "NoResultFound"))}
     ELSE {To(w, [w.r EXCEPT !.pc = "record_click_cache",
                             !.returning = LinkInDB(Clicked(CHOOSE l \in rows : TRUE)),
                             !.tx = [del |-> Ids(rows), put |-> {Clicked(l) : l \in rows}]])}

\* LinksRepository.record_click, the UPDATE ... RETURNING on every active
\* row with the code; fetchone() takes one of the rows returned.  The
\* statement waits while another session holds one of the rows (and, to
\* keep the counter bounded, is not taken at MaxClicks).
record_click(w) ==
  LET r == w.r
      rows == ActiveRows(w.links, r.short_code)
      tx == [del |-> Ids(rows), put |-> {Clicked(l) : l \in rows}]
  IN IF Ids(rows) \cap LockedByOthers(r.tx.del) # {} \/ (\E l \in rows : l.clicks >= MaxClicks)
       THEN {}
     ELSE {To(w, [r EXCEPT !.pc = "record_click_cache", !.returning = first, !.tx = tx]) :
             first \in IF rows = {} THEN {NoLink} ELSE {LinkInDB(l) : l \in tx.put}}

\* record_click after the UPDATE (the cached copy gets the new clicks and
\* last_used_at), then get_original_link's own cache write of the record
\* it looked up before the click; when that write raises, the endpoint
\* answers 500 and the click is not committed.
get_original_link(w) ==
  LET r == w.r
      cached == get_original_link_from_cache(w.cache, r.short_code)
      c1 == IF r.returning # NoLink /\ cached # NoLink
              THEN set_link_to_cache(w.cache, r.short_code,
                     [cached EXCEPT !.clicks = r.returning.clicks,
                                    !.last_used_at = r.returning.last_used_at])
              ELSE w.cache
  IN {[To(w, IF out.raised THEN Raise(r, 500, "DataError")
                 ELSE Respond(r, 307, r.existing))
         EXCEPT !.cache = out.cache] :
        out \in service_set_link_to_cache(c1, r.short_code, r.existing)}

\* ------------------------------------------------------------ update
\* An ownership check that lets everyone through.  With it in the place
\* of Permitted another principal's update reaches the row.
PermittedAll(link, user) == TRUE

\* The ownership check of update_link and delete_link.
Permitted(link, user) == link.created_by = NoUser \/ link.created_by = user

\* LinksRepository.update_link up to the permission check.  The service
\* turns ValueError into ShortLinkNotFoundException (404) and
\* PermissionError into LinkPermissionDeniedException, which the endpoint
\* catches as an unexpected Exception and reports as 500.
update_select(w) ==
  LET r == w.r
      rows == ActiveRows(w.links, r.short_code)
  IN {To(w, IF rows = {} THEN Raise(r, 404, "ShortLinkNotFound")
            ELSE IF Cardinality(rows) > 1 THEN Raise(r, 500, "MultipleResultsFound")
            ELSE IF ~Permitted(CHOOSE l \in rows : TRUE, r.user)
                   THEN Raise(r, 500, "LinkPermissionDenied")
                   ELSE [r EXCEPT !.pc = "update_link"])}

\* An UPDATE that stamps created_at as well.  With it in the place of
\* Updated an update moves the record's creation time.
UpdatedAndRestamped(l, url, expires_at) ==
  [l EXCEPT !.updated_at = now, !.created_at = now, !.clicks = 0,
            !.original_url = url, !.expires_at = expires_at]

\* The row the UPDATE of update_link leaves: new_expires_at is written
\* whether it is a time or None.
Updated(l, url, expires_at) ==
  [l EXCEPT !.updated_at = now, !.clicks = 0, !.original_url = url,
            !.expires_at = expires_at]

\* LinksRepository.update_link, the UPDATE ... RETURNING.
update_link(w) ==
  LET r == w.r
      rows == ActiveRows(w.links, r.short_code)
      put == {Updated(l, r.url, r.expires_at) : l \in rows}
      r1 == [r EXCEPT !.tx = [del |-> Ids(rows), put |-> put]]
  IN IF Ids(rows) \cap LockedByOthers(r.tx.del) # {} THEN {}
     ELSE {To(w, IF Cardinality(rows) > 1 THEN Raise(r1, 500, "MultipleResultsFound")
                 ELSE [r1 EXCEPT !.pc = "update_cache",
                                 !.returning = IF rows = {} THEN NoLink
                                               ELSE LinkInDB(CHOOSE l \in put : TRUE)])}

\* update_link after the UPDATE: the repository refreshes a cached copy,
\* then the service caches the record it looked up before the update with
\* the new URL and, when one was given, the new expires_at; when that
\* write raises, the endpoint answers 500 and the update is not committed.
\* Without a new URL the endpoint has passed str(None), the text "None":
\* LinkInDB(**existing_link) rejects it with a ValidationError, which is a
\* ValueError, so the service raises ShortLinkNotFoundException (404) and
\* the UPDATE is not committed.
update_cache(w) ==
  LET r == w.r
      cached == get_original_link_from_cache(w.cache, r.short_code)
      c1 == IF r.returning # NoLink /\ cached # NoLink
              THEN set_link_to_cache(w.cache, r.short_code,
                     [cached EXCEPT !.original_url = r.returning.original_url,
                                    !.expires_at = r.returning.expires_at,
                                    !.clicks = r.returning.clicks])
              ELSE w.cache
      existing == [r.existing EXCEPT !.original_url = r.url,
                      !.expires_at = IF r.expires_at # NoTime THEN r.expires_at ELSE @]
  IN IF r.url = "None"
       THEN {[To(w, Raise(r, 404, "ShortLinkNotFound")) EXCEPT !.cache = c1]}
     ELSE {[To(w, IF out.raised THEN Raise(r, 500, "DataError")
                    ELSE Respond(r, 204, r.returning))
              EXCEPT !.cache = out.cache] :
             out \in service_set_link_to_cache(c1, r.short_code, existing)}

\* ------------------------------------------------------------ delete
\* LinksRepository.delete_link up to the permission check.  The service
\* catches every Exception of the repository, PermissionError included,
\* and raises ShortLinkNotFoundException (404); when the repository
\* returns False the service goes on to evict the cache entry.
delete_select(w) ==
  LET r == w.r
      rows == ActiveRows(w.links, r.short_code)
  IN {To(w, IF rows = {} THEN [r EXCEPT !.pc = "delete_cache"]
            ELSE IF Cardinality(rows) > 1 THEN Raise(r, 404, "MultipleResultsFound")
            ELSE IF ~Permitted(CHOOSE l \in rows : TRUE, r.user)
                   THEN Raise(r, 404, "PermissionError")
                   ELSE [r EXCEPT !.pc = "delete_link"])}

\* LinksRepository.delete_link, the DELETE.
delete_link(w) ==
  LET r == w.r
      rows == ActiveRows(w.links, r.short_code)
  IN IF Ids(rows) \cap LockedByOthers(r.tx.del) # {} THEN {}
     ELSE {To(w, [r EXCEPT !.pc = "delete_cache", !.tx = [del |-> Ids(rows), put |-> {}]])}

\* delete_link after the DELETE: the repository (when a row was deleted)
\* and then the service evict the cache entry.
delete_cache(w) ==
  {[To(w, Respond(w.r, 204, NoLink)) EXCEPT !.cache = cache_delete(w.cache, w.r.short_code)]}

\* ------------------------------------------------------------- steps
\* The step a request takes next, by where it stands.
Steps(w) ==
  CASE w.r.pc = "create" -> create_short_code(w)
    [] w.r.pc = "create_link" -> create_link(w)
    [] w.r.pc = "redirect" -> get_short_code(w)
    [] w.r.pc = "record_click" -> record_click(w)
    [] w.r.pc = "record_click_cache" -> get_original_link(w)
    [] w.r.pc \in {"update", "delete", "stats", "get_link"} -> GetLinkCache(w)
    [] w.r.pc = "get_link_db" -> get_link_by_short_code(w)
    [] w.r.pc = "get_link_set" -> GetLinkSet(w)
    [] w.r.pc = "update_select" -> update_select(w)
    [] w.r.pc = "update_link" -> update_link(w)
    [] w.r.pc = "update_cache" -> update_cache(w)
    [] w.r.pc = "delete_select" -> delete_select(w)
    [] w.r.pc = "delete_link" -> delete_link(w)
    [] w.r.pc = "delete_cache" -> delete_cache(w)
    [] w.r.pc = "commit" -> Commit(w)
    [] OTHER -> {}

\* The handler run from w to its end.
RECURSIVE Run(_)
Run(w) == IF w.r.pc = "done" THEN {w} ELSE UNION {Run(v) : v \in Steps(w)}

\* ----------------------------------------------------------- actions
World(p) == [links |-> links, cache |-> cache, next_id |-> next_id, r |-> req[p]]

Install(p, w) ==
  /\ links' = w.links
  /\ cache' = w.cache
  /\ next_id' = w.next_id
  /\ req' = [req EXCEPT ![p] = w.r]
  /\ UNCHANGED <<now, sweep>>

\* An expires_at the request validators accept: absent or in the future.
ExpiresChoices == {NoTime} \cup {t \in {now + 1} : t <= MaxTime}

\* POST /shorten (shorten_link), with a custom alias or without
NewCreate ==
  {Request("create", alias, user, url, expires_at, alias # "None") :
     alias \in Codes \cup {"None"}, user \in Users \cup {NoUser},
     url \in Urls, expires_at \in ExpiresChoices}

\* GET /{short_code} (get_short_code)
NewRedirect ==
  {Request("redirect", short_code, NoUser, "None", NoTime, FALSE) :
     short_code \in Codes}

\* PUT /{short_code} (update_link), by an authenticated user; original_url
\* may be left out, and the endpoint then passes str(None).
NewUpdate ==
  {Request("update", short_code, user, url, expires_at, FALSE) :
     short_code \in Codes, user \in Users, url \in Urls \cup {"None"},
     expires_at \in ExpiresChoices}

\* DELETE /{short_code} (delete_link), by an authenticated user
NewDelete ==
  {Request("delete", short_code, user, "None", NoTime, FALSE) :
     short_code \in Codes, user \in Users}

\* GET /{short_code}/stats/ (get_link_stats), by an authenticated user
NewStats ==
  {Request("stats", short_code, user, "None", NoTime, FALSE) :
     short_code \in Codes, user \in Users}

\* A whole request, from its arrival to the end of its session.
Handle(p, requests) ==
  \E r \in requests : \E w \in Run(To(World(p), r)) : Install(p, w)

Create(p) == req[p] = Idle /\ next_id <= MaxRows /\ Handle(p, NewCreate)
Redirect(p) == req[p] = Idle /\ Handle(p, NewRedirect)
Update(p) == req[p] = Idle /\ Handle(p, NewUpdate)
Delete(p) == req[p] = Idle /\ Handle(p, NewDelete)
Stats(p) == req[p] = Idle /\ Handle(p, NewStats)

\* The requests that are interleaved with the sweepers carry one URL.
Interleaved(requests) == {r \in requests : r.url \in {AllUrls[1], "None"}}

\* A request arrives.
Arrive(p, requests) ==
  /\ \E r \in requests : req' = [req EXCEPT ![p] = r]
  /\ UNCHANGED <<now, links, next_id, cache, sweep>>

StartCreate(p) == req[p] = Idle /\ next_id <= MaxRows /\ Arrive(p, Interleaved(NewCreate))
StartRedirect(p) == req[p] = Idle /\ Arrive(p, Interleaved(NewRedirect))
StartUpdate(p) == req[p] = Idle /\ Arrive(p, Interleaved(NewUpdate))
StartDelete(p) == req[p] = Idle /\ Arrive(p, Interleaved(NewDelete))
StartStats(p) == req[p] = Idle /\ Arrive(p, Interleaved(NewStats))

\* The requests of two clients that are interleaved with each other: those
\* of one principal or of none, without an expires_at.
Paired(requests) ==
  {r \in Interleaved(requests) : r.user \in {"alice", NoUser} /\ r.expires_at = NoTime}

PairCreate(p) == req[p] = Idle /\ next_id <= MaxRows /\ Arrive(p, Paired(NewCreate))
PairRedirect(p) == req[p] = Idle /\ Arrive(p, Paired(NewRedirect))
PairUpdate(p) == req[p] = Idle /\ Arrive(p, Paired(NewUpdate))
PairDelete(p) == req[p] = Idle /\ Arrive(p, Paired(NewDelete))
PairStats(p) == req[p] = Idle /\ Arrive(p, Paired(NewStats))

\* A request in flight takes its next step.
Advance(p) ==
  /\ req[p].pc \notin {"idle", "done"}
  /\ \E w \in Steps(World(p)) : Install(p, w)

\* The response has gone out and the request's frame is dropped.
Finish(p) ==
  /\ req[p].pc = "done"
  /\ req' = [req EXCEPT ![p] = Idle]
  /\ UNCHANGED <<now, links, next_id, cache, sweep>>

\* ---------------------------------------------------------- sweepers
\* A sweeper task in asyncio.sleep, between two passes: where it stands
\* (pc), its session's writes (tx), the codes its UPDATE returned
\* (removed) and whether cancel() has been called on it (must_cancel).
Sleeping == [pc |-> "sleep", tx |-> NoTx, removed |-> {}, must_cancel |-> FALSE]

\* The WHERE clause of check_expired_links.
Expired(l) == l.is_active /\ l.expires_at # NoTime /\ l.expires_at < now

\* A WHERE clause that also takes the links whose age or last use is
\* just the threshold.
UnusedAtThreshold(l) ==
  LET threshold_time == now - UNUSED_LINKS_THRESHOLD
  IN l.is_active /\ \/ l.last_used_at = NoTime /\ l.created_at <= threshold_time
                    \/ l.last_used_at # NoTime /\ l.last_used_at <= threshold_time

\* The WHERE clause of check_unused_links.
Unused(l) ==
  LET threshold_time == now - UNUSED_LINKS_THRESHOLD
  IN l.is_active /\ \/ l.last_used_at = NoTime /\ l.created_at < threshold_time
                    \/ l.last_used_at # NoTime /\ l.last_used_at < threshold_time

Matches(s, l) == IF s \in {"expired", "expired_2"} THEN Expired(l) ELSE Unused(l)

\* An UPDATE that stamps updated_at and forgets is_active.  With it in
\* the place of Deactivated a pass leaves its rows active.
Stamped(rows) == {[l EXCEPT !.updated_at = now] : l \in rows}

\* The rows an UPDATE of a sweep leaves.
Deactivated(rows) == {[l EXCEPT !.is_active = FALSE, !.updated_at = now] : l \in rows}

\* check_expired_links / check_unused_links: one UPDATE ... RETURNING
\* short_code, in the session of this pass.
check_links(s) ==
  LET rows == {l \in links : Matches(s, l)}
  IN [pc |-> "evict", tx |-> [del |-> Ids(rows), put |-> Deactivated(rows)],
      removed |-> {l.short_code : l \in rows}, must_cancel |-> FALSE]

\* One element of the list get_expired_links returns.
ExpiredLink(l) ==
  [short_code |-> l.short_code, original_url |-> l.original_url,
   created_at |-> l.created_at, created_by |-> l.created_by,
   clicks |-> l.clicks, last_used_at |-> l.last_used_at,
   expires_at |-> l.expires_at, is_active |-> l.is_active,
   updated_at |-> l.updated_at]

\* get_expired_links: select(Link).where(Link.is_active == False)
get_expired_links(table) == {ExpiredLink(l) : l \in {m \in table : ~m.is_active}}

\* for code in removed_codes: redis_client.delete(code)
Evicted(c, removed) ==
  [code \in Keys |-> IF code \in removed THEN NoEntry ELSE c[code]]

\* clean_up_expired_links / clean_up_unused_links: one pass, from the
\* UPDATE to the commit.
Sweep(s) ==
  LET pass == check_links(s)
  IN /\ sweep[s].pc = "sleep"
     /\ links' = Committed(links, pass.tx)
     /\ cache' = Evicted(cache, pass.removed)
     /\ UNCHANGED <<now, next_id, req, sweep>>

\* The three steps of a pass, taken one at a time.
SweepCheck(s) ==
  /\ sweep[s].pc = "sleep"
  /\ check_links(s).tx.del \cap LockedByOthers(sweep[s].tx.del) = {}
  /\ sweep' = [sweep EXCEPT ![s] = check_links(s)]
  /\ UNCHANGED <<now, links, next_id, cache, req>>

SweepEvict(s) ==
  /\ sweep[s].pc = "evict"
  /\ cache' = Evicted(cache, sweep[s].removed)
  /\ sweep' = [sweep EXCEPT ![s].pc = "commit"]
  /\ UNCHANGED <<now, links, next_id, req>>

SweepCommit(s) ==
  /\ sweep[s].pc = "commit"
  /\ links' = Committed(links, sweep[s].tx)
  /\ sweep' = [sweep EXCEPT ![s] = Sleeping]
  /\ UNCHANGED <<now, next_id, cache, req>>

\* An exception in a pass: in the UPDATE (nothing is written), in a redis
\* delete (the codes before it are evicted) or in the commit (which the
\* Store has either done or not).  Leaving `async with` closes the session
\* and drops what it had not committed; except Exception logs the error.
SweepFail(s) ==
  /\ ~sweep[s].must_cancel
  /\ \/ /\ sweep[s].pc = "sleep"
        /\ UNCHANGED <<links, cache>>
     \/ /\ sweep[s].pc = "evict"
        /\ \E done \in SUBSET sweep[s].removed :
             done # sweep[s].removed /\ cache' = Evicted(cache, done)
        /\ UNCHANGED links
     \/ /\ sweep[s].pc = "commit"
        /\ links' \in {links, Committed(links, sweep[s].tx)}
        /\ UNCHANGED cache
  /\ sweep' = [sweep EXCEPT ![s] = [Sleeping EXCEPT !.pc = "failed"]]
  /\ UNCHANGED <<now, next_id, req>>

\* An except clause that lets the error out of the loop: the task is over.
SweepDies(s) ==
  /\ sweep[s].pc = "failed"
  /\ sweep' = [sweep EXCEPT ![s] = [Sleeping EXCEPT !.pc = "ended"]]
  /\ UNCHANGED <<now, links, next_id, cache, req>>

\* After the except clause the loop goes on to asyncio.sleep(interval).
SweepResume(s) ==
  /\ sweep[s].pc = "failed"
  /\ ~sweep[s].must_cancel
  /\ sweep' = [sweep EXCEPT ![s] = Sleeping]
  /\ UNCHANGED <<now, links, next_id, cache, req>>

\* lifespan, after the yield: cancel() on both tasks of the application.
Shutdown ==
  /\ \E s \in Sweepers : ~sweep[s].must_cancel /\ sweep[s].pc # "ended"
  /\ sweep' = [s \in Tasks |->
       IF s \in Sweepers /\ sweep[s].pc # "ended"
         THEN [sweep[s] EXCEPT !.must_cancel = TRUE] ELSE sweep[s]]
  /\ UNCHANGED <<now, links, next_id, cache, req>>

\* The task ended by a CancelledError, which except Exception does not catch.
Ended == [pc |-> "ended", tx |-> NoTx, removed |-> {}, must_cancel |-> TRUE]

\* CancelledError is raised at the await the task is suspended in: the
\* sleep, the UPDATE (whose session is closed without a commit, before
\* any redis delete) or the commit (which the Store has either done or
\* not).
Cancelled(s) ==
  /\ sweep[s].must_cancel
  /\ sweep[s].pc # "ended"
  /\ IF sweep[s].pc = "commit"
       THEN links' \in {links, Committed(links, sweep[s].tx)}
       ELSE links' = links
  /\ sweep' = [sweep EXCEPT ![s] = Ended]
  /\ UNCHANGED <<now, next_id, cache, req>>

\* -------------------------------------------------------------- time
\* Five minutes pass: Redis drops the entries whose TTL has run out.
Tick ==
  /\ now < MaxTime
  /\ now' = now + 1
  /\ cache' = [c \in Keys |->
       IF cache[c].present /\ cache[c].until <= now + 1 THEN NoEntry ELSE cache[c]]
  /\ UNCHANGED <<links, next_id, req, sweep>>

\* ----------------------------------------------------- specification
Init ==
  /\ now = 0
  /\ links = {}
  /\ next_id = 1
  /\ cache = [c \in Keys |-> NoEntry]
  /\ req = [p \in Procs |-> Idle]
  /\ sweep = [s \in Tasks |-> Sleeping]

\* Requests and sweep passes one at a time, each run to its end.
Next ==
  \/ Create(1)
  \/ Redirect(1)
  \/ Update(1)
  \/ Delete(1)
  \/ Stats(1)
  \/ Finish(1)
  \/ \E s \in Sweepers : req[1] = Idle /\ Sweep(s)
  \/ req[1] = Idle /\ Tick

Spec == Init /\ [][Next]_vars

\* The histories in which no link is updated: requests and sweep passes
\* one at a time, without PUT.
NextNoUpdate ==
  \/ Create(1)
  \/ Redirect(1)
  \/ Delete(1)
  \/ Stats(1)
  \/ Finish(1)
  \/ \E s \in Sweepers : req[1] = Idle /\ Sweep(s)
  \/ req[1] = Idle /\ Tick

SpecNoUpdate == Init /\ [][NextNoUpdate]_vars

\* No request and no sweep pass is in flight.  A tick is five minutes and
\* a request or a pass takes far less: time passes between them.
Quiet ==
  /\ \A p \in Procs : req[p] = Idle
  /\ \A s \in Tasks : sweep[s] = Sleeping

\* The steps of one client's requests and of the two sweepers,
\* interleaved.
NextConc ==
  \/ StartCreate(1)
  \/ StartRedirect(1)
  \/ StartUpdate(1)
  \/ StartDelete(1)
  \/ StartStats(1)
  \/ Advance(1)
  \/ Finish(1)
  \/ \E s \in Sweepers : SweepCheck(s) \/ SweepEvict(s) \/ SweepCommit(s)
  \/ Quiet /\ Tick

SpecConc == Init /\ [][NextConc]_vars

\* The steps of two clients' requests, interleaved, while no sweep pass
\* runs and no cache entry runs out.
NextPair ==
  \E p \in Procs : \/ PairCreate(p)
                    \/ PairRedirect(p)
                    \/ PairUpdate(p)
                    \/ PairDelete(p)
                    \/ PairStats(p)
                    \/ Advance(p)
                    \/ Finish(p)

SpecPair == Init /\ [][NextPair]_vars

\* The requests of the one client that creates links for the sweepers:
\* POST /shorten with a custom alias.
Background ==
  {Request("create", alias, "alice", AllUrls[1], expires_at, TRUE) :
     alias \in Keys, expires_at \in ExpiresChoices}

BackgroundCreate(p) == req[p] = Idle /\ next_id <= MaxRows /\ Handle(p, Background)

\* No request is in flight and every sweeper task sleeps or has ended.
Calm ==
  /\ \A p \in Procs : req[p] = Idle
  /\ \A s \in Tasks : sweep[s].pc \in {"sleep", "ended"}

\* One step of sweeper task s.
Pass(s) ==
  \/ ~sweep[s].must_cancel /\ SweepCheck(s)
  \/ ~sweep[s].must_cancel /\ SweepEvict(s)
  \/ ~sweep[s].must_cancel /\ SweepCommit(s)
  \/ SweepFail(s)
  \/ SweepResume(s)
  \/ Cancelled(s)

\* The sweeper tasks of two instances of the application, their passes
\* interleaved step by step, failing and cancelled, while one client
\* creates links.
NextSweep ==
  \/ BackgroundCreate(1)
  \/ Finish(1)
  \/ \E s \in Tasks : Pass(s)
  \/ Shutdown
  \/ Calm /\ Tick

SpecSweep == Init /\ [][NextSweep]_vars

\* One instance of the application from startup to shutdown: its two
\* sweeper tasks, failing and cancelled, while one client creates links.
NextLifespan ==
  \/ BackgroundCreate(1)
  \/ Finish(1)
  \/ \E s \in Sweepers : Pass(s)
  \/ Shutdown
  \/ Calm /\ Tick

\* The event loop runs every task that can take a step.
SpecLifespan ==
  Init /\ [][NextLifespan]_vars /\ \A s \in Sweepers : WF_vars(Pass(s))

\* LinksRepository.get_link_stats as its callers may call it: get_by is a
\* principal or None.  (The endpoint never passes None: without a token
\* get_required_current_user answers 401 before the service is called.)
RepositoryStats(p) ==
  /\ req[p] = Idle
  /\ Handle(p, {Request("stats", short_code, get_by, "None", NoTime, FALSE) :
                  short_code \in Codes, get_by \in Users \cup {NoUser}})

\* The repository under its callers: links are created, clicked and
\* swept, and get_link_stats is called for any principal or for none.
NextRepository ==
  \/ Create(1)
  \/ Redirect(1)
  \/ RepositoryStats(1)
  \/ Finish(1)
  \/ \E s \in Sweepers : req[1] = Idle /\ Sweep(s)
  \/ req[1] = Idle /\ Tick

SpecRepository == Init /\ [][NextRepository]_vars

\* -------------------------------------------------------- validation
\* How a custom alias is written, character by character.  The codes of
\* Codes are well-formed aliases, written as the code followed by "11".
Spelling(alias) ==
  CASE alias = "search" -> <<"s", "e", "a", "r", "c", "h">>
    [] alias = "Search" -> <<"S", "e", "a", "r", "c", "h">>
    [] alias = "expired" -> <<"e", "x", "p", "i", "r", "e", "d">>
    [] alias = "ad" -> <<"a", "d">>
    [] alias = "a-d" -> <<"a", "-", "d">>
    [] alias = "long" -> [i \in 1..21 |-> "a"]
    [] OTHER -> <<alias, "1", "1">>

\* The aliases a client may send: the well-formed ones and one of each
\* kind the validator is there to refuse.
AliasInputs == Codes \cup {"search", "Search", "expired", "ad", "a-d", "long"}

\* str.isalnum, over the letters and digits the aliases are written in
isalnum(value) ==
  /\ value # <<>>
  /\ \A i \in 1..Len(value) :
       value[i] \in {"a", "b", "c", "d", "e", "h", "i", "p", "r", "s", "x", "S", "1"}

\* str.lower
lower(value) ==
  [i \in 1..Len(value) |-> IF value[i] = "S" THEN "s" ELSE value[i]]

\* LinkCreate.check_custom_alias: what the validator does with an alias;
\* "None" is an alias left out or empty, which is returned as it is.
check_custom_alias(alias) ==
  IF alias = "None" THEN "ok"
  ELSE IF ~isalnum(Spelling(alias)) THEN "ValueError"
  ELSE IF Len(Spelling(alias)) < 3 \/ Len(Spelling(alias)) > 20 THEN "ValueError"
  ELSE IF lower(Spelling(alias)) = Spelling("search") THEN "ValueError"
  ELSE IF lower(Spelling(alias)) = Spelling("expired") THEN "ValueError"
  ELSE "ok"

\* An expires_at as the request body carries it: an instant, written
\* with a UTC offset (aware) or without one (naive); or left out.
NoExpires == [at |-> NoTime, aware |-> FALSE]
ExpiresInputs == {NoExpires} \cup [at : 0..MaxTime, aware : BOOLEAN]

\* LinkCreate.check_expires_at: value < datetime.now(timezone.utc); the
\* comparison of a naive value with the aware clock raises TypeError.
LinkCreate_check_expires_at(value) ==
  IF value.at = NoTime THEN "ok"
  ELSE IF ~value.aware THEN "TypeError"
  ELSE IF value.at < now THEN "ValueError"
  ELSE "ok"

\* LinkUpdate.check_expires_at: value < datetime.now(); the comparison
\* of an aware value with the naive clock raises TypeError.
LinkUpdate_check_expires_at(value) ==
  IF value.at = NoTime THEN "ok"
  ELSE IF value.aware THEN "TypeError"
  ELSE IF value.at < now THEN "ValueError"
  ELSE "ok"

\* The model's validation of a request body: the ValueErrors of the
\* field validators are collected into a ValidationError, which the
\* framework answers with 422; any other exception of a validator leaves
\* the validation as it is and the framework answers with 500.
Validated(outcomes) ==
  IF "TypeError" \in outcomes THEN [status |-> 500, error |-> "TypeError"]
  ELSE IF "ValueError" \in outcomes THEN [status |-> 422, error |-> "ValidationError"]
  ELSE [status |-> 200, error |-> "None"]

\* A request that ended at the validation of its body: no handler ran.
Rejected(p, r, verdict) ==
  /\ req' = [req EXCEPT ![p] = Raise(r, verdict.status, verdict.error)]
  /\ UNCHANGED <<now, links, next_id, cache, sweep>>

\* POST /shorten with any body: LinkCreate validates it, then shorten_link
ShortenLink(p) ==
  /\ req[p] = Idle
  /\ next_id <= MaxRows
  /\ \E alias \in AliasInputs \cup {"None"}, value \in ExpiresInputs,
        user \in Users \cup {NoUser}, url \in Urls :
       LET r == Request("create", alias, user, url, value.at, alias # "None")
           verdict == Validated({check_custom_alias(alias),
                                 LinkCreate_check_expires_at(value)})
       IN IF verdict.status = 200 THEN Handle(p, {r}) ELSE Rejected(p, r, verdict)

\* PUT /{short_code} with any body: LinkUpdate validates it, then update_link
PutLink(p) ==
  /\ req[p] = Idle
  /\ \E short_code \in Codes, value \in ExpiresInputs, user \in Users,
        url \in Urls \cup {"None"} :
       LET r == Request("update", short_code, user, url, value.at, FALSE)
           verdict == Validated({LinkUpdate_check_expires_at(value)})
       IN IF verdict.status = 200 THEN Handle(p, {r}) ELSE Rejected(p, r, verdict)

\* The API under clients that send any body, well-formed or not.
NextValidate ==
  \/ ShortenLink(1)
  \/ PutLink(1)
  \/ Redirect(1)
  \/ Finish(1)
  \/ req[1] = Idle /\ Tick

SpecValidate == Init /\ [][NextValidate]_vars

\* ------------------------------------------------------------ search
\* A search that leaves out is_active.  With it in the place of
\* search_by_original_url deactivated records are listed.
SearchAnyActivity(table, original_url) ==
  LET found == {l \in table : l.original_url = original_url}
  IN [id \in Ids(found) |->
        LET link == CHOOSE l \in found : l.link_id = id
        IN [f \in DOMAIN link \ {"link_id"} |-> link[f]]]

\* LinksRepository.search_by_original_url: one dict for each row the
\* SELECT returns, here under the row's link_id, built from the row's
\* columns other than link_id.
search_by_original_url(table, original_url) ==
  LET found == {l \in table : l.original_url = original_url /\ l.is_active}
  IN [id \in Ids(found) |->
        LET link == CHOOSE l \in found : l.link_id = id
        IN [f \in DOMAIN link \ {"link_id"} |-> link[f]]]

\* GET /search (search_links, LinksService.search_link)
Search(p) ==
  /\ req[p] = Idle
  /\ \E original_url \in Urls :
       LET r == Request("search", "None", NoUser, original_url, NoTime, FALSE)
           found == [original_url |-> original_url,
                     links |-> search_by_original_url(links, original_url)]
       IN req' = [req EXCEPT ![p] = Done([r EXCEPT !.status = 200, !.result = found])]
  /\ UNCHANGED <<now, links, next_id, cache, sweep>>

\* The API under clients that create, update and search, while the
\* sweepers deactivate records.
NextSearch ==
  \/ Create(1)
  \/ Update(1)
  \/ Search(1)
  \/ Finish(1)
  \/ \E s \in Sweepers : req[1] = Idle /\ Sweep(s)
  \/ req[1] = Idle /\ Tick

SpecSearch == Init /\ [][NextSearch]_vars

\* ------------------------------------------------------ cache writers
\* A call of one of the two cache writers, as any of their callers may
\* make it: a record of the code with or without an expires_at, while
\* the key holds an entry or none.  The call's frame keeps the writer
\* (op), the key, the record (result) and whether the call raised.
CacheWrite(p, op, short_code, link) ==
  LET r == [Request(op, short_code, NoUser, link.original_url, link.expires_at, FALSE)
              EXCEPT !.result = link]
      outs == IF op = "LinksRepository.set_link_to_cache"
                THEN {[cache |-> set_link_to_cache(cache, short_code, link), raised |-> FALSE]}
                ELSE service_set_link_to_cache(cache, short_code, link)
  IN /\ \E out \in outs :
          /\ cache' = out.cache
          /\ req' = [req EXCEPT ![p] =
                       IF out.raised THEN Raise(r, 500, "DataError") ELSE Done(r)]
     /\ UNCHANGED <<now, links, next_id, sweep>>

RepositoryWrite(p) ==
  /\ req[p] = Idle
  /\ \E short_code \in Codes, original_url \in Urls, expires_at \in {NoTime} \cup 0..MaxTime :
    CacheWrite(p, "LinksRepository.set_link_to_cache", short_code,
               LinkInDB(Link(1, short_code, original_url, NoUser, expires_at)))

ServiceWrite(p) ==
  /\ req[p] = Idle
  /\ \E short_code \in Codes, original_url \in Urls, expires_at \in {NoTime} \cup 0..MaxTime :
    CacheWrite(p, "LinksService.set_link_to_cache", short_code,
               LinkInDB(Link(1, short_code, original_url, NoUser, expires_at)))

\* The two writers under every call, as time passes and entries run out.
NextCacheWrite ==
  \/ RepositoryWrite(1)
  \/ ServiceWrite(1)
  \/ Finish(1)
  \/ req[1] = Idle /\ Tick

SpecCacheWrite == Init /\ [][NextCacheWrite]_vars

\* ------------------------------------------------------------ properties
\* A whole request of process 1 (Spec, SpecNoUpdate): the step from Idle
\* to its response.
Served(op) == req[1] = Idle /\ req'[1].op = op

\* C1: in every reachable state no two records of the Store, active or
\* not, have the same short_code.
UniqueShortCode ==
  \A l1 \in links : \A l2 \in links :
    l1.short_code = l2.short_code => l1.link_id = l2.link_id

\* C2: an update or delete requested by a principal other than the
\* non-null created_by of a record leaves that record in the Store,
\* unchanged in every field.  (Stated of a request that runs from its
\* lookup to its commit with no other session committing in between: the
\* ownership check and the UPDATE or DELETE are two statements.)
DeniedLeavesRecord ==
  [][\A l \in links :
       (/\ Served("update") \/ Served("delete")
        /\ req'[1].short_code = l.short_code
        /\ l.created_by # NoUser
        /\ l.created_by # req'[1].user) => l \in links']_vars

\* C2, its case: the request of another principal for an active record
\* has been refused.
DeniedWitness ==
  /\ req[1].pc = "done"
  /\ req[1].op \in {"update", "delete"}
  /\ req[1].error \in {"LinkPermissionDenied", "PermissionError"}
  /\ \E l \in links : /\ l.short_code = req[1].short_code
                      /\ l.is_active
                      /\ l.created_by \notin {NoUser, req[1].user}

\* C3: an update, delete or stats request by an authenticated principal
\* other than the non-null created_by of the active record ends with
\* HTTP 403.
DeniedIs403 ==
  [][\A l \in links :
       (/\ Served("update") \/ Served("delete") \/ Served("stats")
        /\ req'[1].short_code = l.short_code
        /\ l.is_active
        /\ l.created_by # NoUser
        /\ l.created_by # req'[1].user) => req'[1].status = 403]_vars

\* C4: every redirect of an active code that is answered with the
\* redirect (307) adds one to the clicks of the Store record, served from
\* the Cache or from the Store.
EveryRedirectCounted ==
  [][(Served("redirect") /\ req'[1].status = 307) =>
       \A l \in links :
         (l.short_code = req'[1].short_code /\ l.is_active) =>
           \E m \in links' : m.link_id = l.link_id /\ m.clicks = l.clicks + 1]_vars

\* C5: where no link is ever updated, the Store's clicks of a link count
\* redirects that were served, so the stats its owner is given report at
\* least that many.
StatsReportClicks ==
  \A p \in Procs :
    (req[p].pc = "done" /\ req[p].op = "stats" /\ req[p].status = 200) =>
      \A l \in links :
        (/\ l.short_code = req[p].short_code
         /\ l.is_active
         /\ l.created_by = req[p].user) => req[p].result.clicks >= l.clicks

\* C6: one pass of the expired-link sweeper leaves every active record
\* whose expires_at is in the past inactive, without a Cache entry, out
\* of the active lookup and in the list of get_expired_links.
SweepDeactivatesExpired ==
  [][Sweep("expired") =>
       \A l \in links :
         (l.is_active /\ l.expires_at # NoTime /\ l.expires_at < now) =>
           /\ \E m \in links' : /\ m.link_id = l.link_id
                                /\ ~m.is_active
                                /\ ExpiredLink(m) \in get_expired_links(links')
           /\ \A m \in links' : m.link_id = l.link_id => ~m.is_active
           /\ l.link_id \notin Ids({m \in links' : m.short_code = l.short_code /\ m.is_active})
           /\ get_original_link_from_cache(cache', l.short_code) = NoLink]_vars

\* C6, its case: a record that was still in use when it expired (so that
\* only the expired-link sweeper takes it) has been deactivated.
SweptExpiredWitness ==
  \E l \in links :
    /\ ~l.is_active
    /\ l.expires_at # NoTime
    /\ l.expires_at < l.updated_at
    /\ l.last_used_at # NoTime
    /\ l.last_used_at >= l.updated_at - UNUSED_LINKS_THRESHOLD

\* C7: once the sweep passes have completed and a code has only
\* deactivated records, a redirect or stats request that starts then is
\* not answered with the record.
SweptStaysHidden ==
  [][\A p \in Procs :
       ~(/\ \A s \in Sweepers : sweep[s] = Sleeping
         /\ req[p].pc \in {"redirect", "stats"}
         /\ req'[p].status \in {200, 307}
         /\ \A l \in links : l.short_code = req[p].short_code => ~l.is_active
         /\ \E l \in links : /\ l.short_code = req'[p].result.short_code
                             /\ l.created_at = req'[p].result.created_at
                             /\ l.created_by = req'[p].result.created_by
                             /\ ~l.is_active)]_vars

\* C8: a redirect or stats request is never answered with a record whose
\* expires_at is non-null and in the past.
NeverReturnsExpired ==
  \A p \in Procs :
    (/\ req[p].pc = "done"
     /\ req[p].op \in {"redirect", "stats"}
     /\ req[p].status \in {200, 307}) =>
      \/ req[p].result.expires_at = NoTime
      \/ req[p].result.expires_at >= now

\* C9: a create with a custom alias equal to the short_code of an active
\* record fails with AlreadyExists (400) and leaves the Store as it was.
ActiveAliasRejected ==
  [][\A l \in links :
       (/\ Served("create")
        /\ req'[1].custom
        /\ req'[1].short_code = l.short_code
        /\ l.is_active) =>
         /\ req'[1].status = 400
         /\ req'[1].error = "ShortLinkAlreadyExists"
         /\ links' = links]_vars

\* C9, its case: the alias of an active record has been asked for again
\* and refused.
ActiveAliasWitness ==
  /\ req[1].pc = "done"
  /\ req[1].op = "create"
  /\ req[1].custom
  /\ req[1].status = 400
  /\ \E l \in links : l.short_code = req[1].short_code /\ l.is_active

\* C10: a create with a custom alias equal to the short_code of a record
\* that a sweep deactivated fails with AlreadyExists (400) and inserts no
\* record.
InactiveAliasRejected ==
  [][\A l \in links :
       (/\ Served("create")
        /\ req'[1].custom
        /\ req'[1].short_code = l.short_code
        /\ ~l.is_active) =>
         /\ req'[1].status = 400
         /\ links' = links]_vars

\* C11: a create without an alias, when every code the generator can draw
\* is the short_code of a record of the Store, fails with AlreadyExists
\* (400) within GENERATE_SHORT_CODE_RETRIES attempts and inserts nothing.
RetriesExhausted ==
  [][(/\ Served("create")
      /\ ~req'[1].custom
      /\ \A c \in Codes : \E l \in links : l.short_code = c) =>
       /\ req'[1].status = 400
       /\ req'[1].error = "ShortLinkAlreadyExists"
       /\ req'[1].attempt + 1 <= GENERATE_SHORT_CODE_RETRIES
       /\ links' = links]_vars

\* C12: of two creates in flight with the same short code, only one gets
\* past its INSERT: never have both added a row with that code.
OneCreateInserts ==
  \A p \in Procs : \A q \in Procs \ {p} :
    ~(/\ req[p].op = "create" /\ req[q].op = "create"
      /\ req[p].pc = "commit" /\ req[q].pc = "commit"
      /\ req[p].short_code = req[q].short_code
      /\ req[p].tx.put # {} /\ req[q].tx.put # {})

\* What get_link did in a stats request of the owner that returned the
\* record of row l: the Store is as it was; on a cache hit the entry is
\* returned and the Cache is as it was (no Store query, no side effect);
\* on a miss the Store row is returned; and the Cache now holds the
\* record returned, so that a second get_link returns the same from the
\* Cache.
GetLinkServed(l) ==
  LET code == l.short_code
  IN /\ links' = links
     /\ model_validate_json(cache[code]) =>
          req'[1].result = cache[code].link /\ cache' = cache
     /\ ~model_validate_json(cache[code]) => req'[1].result = LinkInDB(l)
     /\ cache'[code].present
     /\ cache'[code].link = req'[1].result

\* C13, as the code has it: for an active record with time left before
\* its expires_at (or none), get_link leaves the record it returned in
\* the Cache, so that a second call returns the identical record from
\* the Cache without a Store query; a cache hit changes nothing and a
\* Store hit populates the Cache.
GetLinkTwice ==
  [][\A l \in links :
       (/\ Served("stats")
        /\ req'[1].status = 200
        /\ req'[1].short_code = l.short_code
        /\ l.is_active
        /\ l.expires_at = NoTime \/ l.expires_at > now) => GetLinkServed(l)]_vars

\* C13, as stated: the same for every active record.
GetLinkTwiceAnyActive ==
  [][\A l \in links :
       (/\ Served("stats")
        /\ req'[1].status = 200
        /\ req'[1].short_code = l.short_code
        /\ l.is_active) => GetLinkServed(l)]_vars

\* C13, its case: the owner's stats request has been answered for an
\* active record with time left, and the Cache holds the record returned.
GetLinkTwiceWitness ==
  /\ req[1].pc = "done"
  /\ req[1].op = "stats"
  /\ req[1].status = 200
  /\ cache[req[1].short_code].present
  /\ cache[req[1].short_code].link = req[1].result
  /\ \E l \in links : /\ l.short_code = req[1].short_code
                      /\ l.is_active
                      /\ l.expires_at # NoTime
                      /\ l.expires_at > now
                      /\ req[1].result = LinkInDB(l)

\* C14: after a delete by the principal who created the active record
\* has succeeded (204), the Store holds no row with the code, the Cache
\* holds no entry for it, and so a following redirect finds nothing.
DeletedIsGone ==
  [][\A l \in links :
       (/\ Served("delete")
        /\ req'[1].status = 204
        /\ req'[1].short_code = l.short_code
        /\ l.is_active
        /\ l.created_by = req'[1].user) =>
         /\ \A m \in links' : m.short_code # l.short_code
         /\ get_original_link_from_cache(cache', l.short_code) = NoLink]_vars

\* The owner's update request for the one active record l has been served.
OwnerUpdate(l) ==
  /\ Served("update")
  /\ req'[1].short_code = l.short_code
  /\ ActiveRows(links, l.short_code) = {l}
  /\ l.created_by = req'[1].user

\* The Store has row l updated: clicks back to 0, updated_at stamped and
\* original_url as given.
UpdateApplied(l, original_url) ==
  \E m \in links' : /\ m.link_id = l.link_id
                    /\ m.original_url = original_url
                    /\ m.clicks = 0
                    /\ m.updated_at = now

UpdateKeepsExpiresAt ==
  [][\A l \in links :
       (/\ OwnerUpdate(l)
        /\ req'[1].status = 204
        /\ req'[1].expires_at = NoTime) =>
         \E m \in links' : m.link_id = l.link_id /\ m.expires_at = l.expires_at]_vars

SweeperSurvivesFailure ==
  /\ [](\A s \in Sweepers : sweep[s].pc = "ended" => sweep[s].must_cancel)
  /\ \A s \in Sweepers :
       /\ (sweep[s].pc = "failed") ~> (sweep[s].pc = "sleep" \/ sweep[s].must_cancel)
       /\ (sweep[s].pc = "sleep") ~>
            (sweep[s].pc \in {"evict", "failed"} \/ sweep[s].must_cancel)

\* C18, its case: a pass of each sweeper has failed and been caught, and
\* the expired record the failed pass had flipped is still active.
SweeperFailedWitness ==
  /\ sweep["expired"].pc = "failed"
  /\ sweep["unused"].pc = "failed"
  /\ \E l \in links : Expired(l)

\* C19: of the sweep passes in flight at the same time (two expired, two
\* unused, or one of each) no two have flipped the same record or been
\* returned the same code, and a record a pass has flipped was still
\* active: no other pass had flipped it.
SweptByOnePass ==
  /\ \A s \in Tasks : \A t \in Tasks \ {s} :
       /\ sweep[s].tx.del \cap sweep[t].tx.del = {}
       /\ sweep[s].removed \cap sweep[t].removed = {}
  /\ \A s \in Tasks : \A l \in links :
       l.link_id \in sweep[s].tx.del => l.is_active

\* C19, its case: the expired pass has flipped a record and not yet
\* committed, while the UPDATE of the other expired pass and that of the
\* unused pass, which match the same record, wait for it.
SweptByOnePassWitness ==
  \E l \in links :
    /\ l.link_id \in sweep["expired"].tx.del
    /\ sweep["expired"].pc = "commit"
    /\ sweep["expired_2"].pc = "sleep" /\ Matches("expired_2", l)
    /\ sweep["unused"].pc = "sleep" /\ Matches("unused", l)

\* The pass of task s is over in this step without having gone through
\* its commit: it failed or was cancelled after its UPDATE.
PassBroken(s) ==
  /\ sweep[s].pc \in {"evict", "commit"}
  /\ sweep'[s].pc \in {"failed", "ended"}

\* The Store has every flip of the pass of task s and no other change.
AllFlips(s) ==
  /\ Ids(links') = Ids(links)
  /\ \A l \in links : \E m \in links' :
       /\ m.link_id = l.link_id
       /\ m.is_active = (l.is_active /\ l.link_id \notin sweep[s].tx.del)

\* C20: once cancel() has been called on them at shutdown both sweeper
\* tasks end, and stay ended; and a pass that is cancelled or fails in
\* flight leaves in the Store either all of its flips or none of them.
CancelledCleanly ==
  /\ \A s \in Sweepers : sweep[s].must_cancel ~> (sweep[s].pc = "ended")
  /\ [][\A s \in Sweepers :
          /\ sweep[s].pc = "ended" => sweep'[s] = sweep[s]
          /\ PassBroken(s) => (links' = links \/ AllFlips(s))]_vars

\* C20, its case: cancel() has been called while the expired pass, which
\* has flipped two records, waits for its commit.
CancelledInFlightWitness ==
  /\ sweep["expired"].must_cancel
  /\ sweep["unused"].must_cancel
  /\ sweep["expired"].pc = "commit"
  /\ Cardinality(sweep["expired"].tx.del) = 2

\* The domain error LinksService raised to the endpoint, by the response:
\* ShortLinkNotFoundException is the one answered 404 and
\* ShortLinkAlreadyExistsException the one answered 400;
\* LinkPermissionDeniedException reaches the client as 500 and is told by
\* its name; any other exception is no domain error.
DomainError(r) ==
  IF r.status = 404 THEN "NotFound"
  ELSE IF r.status = 400 THEN "AlreadyExists"
  ELSE IF r.error = "LinkPermissionDenied" THEN "PermissionDenied"
  ELSE "None"

\* Process 1's request has been served, for the one active record l, which
\* another principal created.
DeniedByRepository(l) ==
  /\ req[1] = Idle
  /\ req'[1].op \in {"update", "delete", "stats"}
  /\ req'[1].short_code = l.short_code
  /\ ActiveRows(links, l.short_code) = {l}
  /\ l.created_by \notin {NoUser, req'[1].user}

\* C21: the service turns each outcome of the repository into the domain
\* error of the same kind: a permission denial of update_link,
\* delete_link or get_link_stats into PermissionDenied, and a code with
\* no record into NotFound.
ServiceMapsErrors ==
  [][/\ \A l \in links :
          DeniedByRepository(l) => DomainError(req'[1]) = "PermissionDenied"
     /\ (/\ req[1] = Idle
         /\ req'[1].op \in {"update", "delete", "stats"}
         /\ \A l \in links : l.short_code # req'[1].short_code
         /\ ~cache[req'[1].short_code].present) =>
           DomainError(req'[1]) = "NotFound"]_vars

\* C22: an update, delete or stats request, by whatever principal, for a
\* record whose created_by is null is refused and leaves the record as
\* it was.
OwnerlessIsClosed ==
  [][\A l \in links :
       (/\ req[1] = Idle
        /\ req'[1].op \in {"update", "delete", "stats"}
        /\ req'[1].short_code = l.short_code
        /\ ActiveRows(links, l.short_code) = {l}
        /\ l.created_by = NoUser) =>
         /\ req'[1].status \notin {200, 204}
         /\ l \in links']_vars

CorruptEntryIsMiss ==
  [][\A l \in links :
       (/\ req[1] = Idle
        /\ req'[1].op \in {"redirect", "stats"}
        /\ req'[1].op = "stats" => req'[1].user = l.created_by
        /\ req'[1].short_code = l.short_code
        /\ ActiveRows(links, l.short_code) = {l}
        /\ l.clicks < MaxClicks
        /\ cache[l.short_code].present
        /\ ~model_validate_json(cache[l.short_code])) =>
         /\ req'[1].status \in {200, 307}
         /\ req'[1].result = LinkInDB(l)]_vars

\* C25: record_click for a code that has no active record (none at all,
\* or one deactivated since the redirect looked it up) raises nothing and
\* changes neither the Store nor the Cache: its UPDATE returns no row and
\* writes none, and the redirect goes on to its own cache write and its
\* answer.
ClickOnNothing ==
  [][\A p \in Procs :
       /\ (/\ req[p].pc = "record_click"
           /\ ActiveRows(links, req[p].short_code) = {}
           /\ req'[p] # req[p]) =>
             /\ req'[p] = [req[p] EXCEPT !.pc = "record_click_cache"]
             /\ req'[p].returning = NoLink
             /\ req'[p].tx = NoTx
             /\ links' = links
             /\ cache' = cache
       /\ (/\ req[p].pc = "record_click_cache"
           /\ req[p].returning = NoLink
           /\ req'[p] # req[p]) =>
             /\ links' = links
             /\ req'[p].error \in {"None", "DataError"}
             /\ \E out \in service_set_link_to_cache(cache, req[p].short_code,
                                                      req[p].existing) :
                  cache' = out.cache /\ out.raised = (req'[p].error = "DataError")]_vars

\* C25, its case: the redirect found the record, a sweep pass has
\* deactivated it since, and record_click has run and returned no row.
ClickOnNothingWitness ==
  /\ req[1].op = "redirect"
  /\ req[1].pc = "record_click_cache"
  /\ req[1].existing # NoLink
  /\ req[1].returning = NoLink
  /\ \E l \in links : l.short_code = req[1].short_code /\ ~l.is_active
  /\ ActiveRows(links, req[1].short_code) = {}

\* The records the unused-link sweep is to take: active, and either never
\* used and created before the threshold time, or last used before it.
DueUnused ==
  {l \in links :
     /\ l.is_active
     /\ \/ l.last_used_at = NoTime /\ l.created_at < now - UNUSED_LINKS_THRESHOLD
        \/ l.last_used_at # NoTime /\ l.last_used_at < now - UNUSED_LINKS_THRESHOLD}

\* C26: one pass of check_unused_links deactivates exactly the records
\* due, returns exactly their codes and leaves every other record as it
\* was; the deactivated records are in the list of get_expired_links.
SweepDeactivatesUnused ==
  [][Sweep("unused") =>
       /\ check_links("unused").removed = {l.short_code : l \in DueUnused}
       /\ links \ DueUnused \subseteq links'
       /\ Ids(links') = Ids(links)
       /\ \A l \in DueUnused : \E m \in links' :
            /\ m = [l EXCEPT !.is_active = FALSE, !.updated_at = now]
            /\ ExpiredLink(m) \in get_expired_links(links')]_vars

\* C26, its case: a record without an expires_at that had been used has
\* been deactivated, its last use older than the threshold by then.
SweptUnusedWitness ==
  \E l \in links :
    /\ ~l.is_active
    /\ l.expires_at = NoTime
    /\ l.last_used_at # NoTime
    /\ l.last_used_at < l.updated_at - UNUSED_LINKS_THRESHOLD

\* C27: a redirect, update, delete or stats request for a code that has
\* no active record is answered NotFound (404) and changes no record of
\* the Store.
NoActiveRecordIsNotFound ==
  [][(/\ req[1] = Idle
      /\ req'[1].op \in {"redirect", "update", "delete", "stats"}
      /\ \A l \in links : l.short_code = req'[1].short_code => ~l.is_active) =>
       /\ req'[1].status = 404
       /\ links' = links]_vars

\* C27, its case: a request for a code whose only record is deactivated
\* has been answered 404.
NotFoundWitness ==
  /\ req[1].pc = "done"
  /\ req[1].op \in {"redirect", "update", "delete", "stats"}
  /\ req[1].status = 404
  /\ \E l \in links : l.short_code = req[1].short_code
  /\ \A l \in links : l.short_code = req[1].short_code => ~l.is_active

\* What the validation of an alias is there to refuse: a reserved word
\* in any case, a character that is no letter or digit, a length
\* outside 3..20.
Reserved(alias) ==
  \E word \in {"search", "expired"} :
    /\ Len(Spelling(alias)) = Len(Spelling(word))
    /\ \A i \in 1..Len(Spelling(word)) :
         Spelling(alias)[i] \in {Spelling(word)[i], IF Spelling(word)[i] = "s" THEN "S" ELSE Spelling(word)[i]}

Malformed(alias) ==
  \/ Reserved(alias)
  \/ \E i \in 1..Len(Spelling(alias)) : Spelling(alias)[i] = "-"
  \/ Len(Spelling(alias)) \notin 3..20

\* C28: a create request whose custom alias is a reserved word, is not
\* alphanumeric or is outside 3 to 20 characters, or whose expires_at is
\* in the past, and an update request whose expires_at is in the past,
\* is rejected as invalid input (422) and changes neither the Store nor
\* the Cache; and no record with a reserved short_code ever exists.
InvalidIsRejected ==
  /\ [][(/\ req[1] = Idle
         /\ \/ /\ req'[1].op = "create"
               /\ \/ req'[1].custom /\ Malformed(req'[1].short_code)
                  \/ req'[1].expires_at # NoTime /\ req'[1].expires_at < now
            \/ /\ req'[1].op = "update"
               /\ req'[1].expires_at # NoTime /\ req'[1].expires_at < now) =>
          /\ req'[1].status = 422
          /\ links' = links
          /\ cache' = cache]_vars
  /\ [](\A l \in links : ~Reserved(l.short_code))

\* C29: search_by_original_url(url) returns exactly the active records
\* of the Store whose original_url equals url, each with its columns:
\* no inactive record, no record with a different URL, and an empty
\* list when there is none.
SearchFindsActive ==
  [][(req[1] = Idle /\ req'[1].op = "search") =>
       LET found == req'[1].result.links
       IN /\ DOMAIN found =
               {l.link_id : l \in {m \in links : m.is_active /\ m.original_url = req'[1].url}}
          /\ \A l \in links :
               l.link_id \in DOMAIN found =>
                 \A f \in DOMAIN l \ {"link_id"} : found[l.link_id][f] = l[f]
          /\ links' = links]_vars

\* C29, its case: a search has listed a record while the Store holds a
\* deactivated record with the same original_url, which it left out.
SearchWitness ==
  /\ req[1].pc = "done"
  /\ req[1].op = "search"
  /\ DOMAIN req[1].result.links # {}
  /\ \E l \in links :
       /\ l.original_url = req[1].url
       /\ ~l.is_active
       /\ l.link_id \notin DOMAIN req[1].result.links

\* The URLs a redirect of the code may answer with, now or once the
\* cached copy has run out: that of the cached copy, if it parses, and
\* those of the code's active records.
Servable(c, table, short_code) ==
  {c[k].link.original_url :
     k \in {k \in {short_code} : c[k].present /\ c[k].link.original_url # "None"}}
    \cup {l.original_url : l \in {m \in table : m.short_code = short_code /\ m.is_active}}

\* A create or an update that succeeded, and the code it stored a URL for.
Stores(r, short_code) ==
  \/ r.op = "create" /\ r.status = 200 /\ r.result.short_code = short_code
  \/ r.op = "update" /\ r.status = 204 /\ r.short_code = short_code

\* C30: in a sequential history a successful redirect of a code returns
\* the original_url most recently stored for it by a create or by a
\* successful update, from the Cache or from the Store.  By induction
\* over the history: a successful create or update leaves its URL as the
\* only one to serve, every other step leaves no new URL to serve, and a
\* successful redirect answers with a URL there is to serve.
RedirectReturnsLatest ==
  [][\A short_code \in Codes :
       /\ (req[1] = Idle /\ Stores(req'[1], short_code)) =>
            Servable(cache', links', short_code) = {req'[1].url}
       /\ ~(req[1] = Idle /\ Stores(req'[1], short_code)) =>
            Servable(cache', links', short_code) \subseteq Servable(cache, links, short_code)
       /\ (/\ req[1] = Idle
           /\ req'[1].op = "redirect"
           /\ req'[1].status = 307
           /\ req'[1].short_code = short_code) =>
            req'[1].result.original_url \in Servable(cache, links, short_code)]_vars

\* C31: whenever no request and no sweep pass is in flight, every Cache
\* entry is keyed by the short_code of an active Store record: once a
\* lookup that raced with a delete or with a sweep pass and the other
\* have finished, no entry remains for a deleted or deactivated code.
QuietCacheIsActive ==
  Quiet => \A k \in Keys :
             cache[k].present => \E l \in links : l.short_code = k /\ l.is_active

\* C32: a record's created_at is set once, when the record is created,
\* and no later operation (record_click, update, expired sweep, unused
\* sweep) changes it.
CreatedAtIsImmutable ==
  [][\A l \in links : \A m \in links' :
       m.link_id = l.link_id => m.created_at = l.created_at]_vars

\* C32, its case: a record created at one time has been clicked and
\* then deactivated by a sweep at a later time.
CreatedAtWitness ==
  \E l \in links :
    /\ ~l.is_active
    /\ l.last_used_at # NoTime
    /\ l.created_at < l.last_used_at
    /\ l.last_used_at < l.updated_at

\* C33: in every step a record's clicks stays the same, increases by
\* one (record_click, in a redirect), or is set to 0 by a successful
\* update; no other operation lowers it, and it is never negative.
ClicksStepByStep ==
  /\ [][\A l \in links : \A m \in links' :
          m.link_id = l.link_id =>
            \/ m.clicks = l.clicks
            \/ m.clicks = l.clicks + 1 /\ req'[1].op = "redirect"
            \/ m.clicks = 0 /\ req'[1].op = "update" /\ req'[1].status = 204]_vars
  /\ [](\A l \in links : l.clicks >= 0)

\* C33, its case: a record that had been clicked has had its counter set
\* back to 0 by a successful update.
ClicksResetWitness ==
  /\ req[1].pc = "done"
  /\ req[1].op = "update"
  /\ req[1].status = 204
  /\ \E l \in links :
       l.short_code = req[1].short_code /\ l.clicks = 0 /\ l.last_used_at # NoTime

\* C34: a record is physically removed from the Store only by a delete
\* requested by the principal that is the record's created_by; no sweep,
\* update, click or delete by another principal removes a row.
RemovedByOwnerOnly ==
  [][\A l \in links :
       (\A m \in links' : m.link_id # l.link_id) =>
         /\ req[1] = Idle
         /\ req'[1].op = "delete"
         /\ req'[1].short_code = l.short_code
         /\ req'[1].user = l.created_by]_vars

\* C35: after a redirect request that recorded a click has completed,
\* the Cache entry for the code, if there is one, has the clicks and the
\* last_used_at of the Store record.
ClickIsMirrored ==
  [][(/\ req[1] = Idle
      /\ req'[1].op = "redirect"
      /\ \E l \in links : \E m \in links' :
           m.link_id = l.link_id /\ m.clicks = l.clicks + 1) =>
       \A m \in links' :
         (/\ m.short_code = req'[1].short_code
          /\ m.is_active
          /\ cache'[m.short_code].present) =>
           /\ cache'[m.short_code].link.clicks = m.clicks
           /\ cache'[m.short_code].link.last_used_at = m.last_used_at]_vars

\* C36: a cache write of a record whose remaining time to expiry is
\* zero or negative stores nothing and evicts the entry of the code; a
\* record with no expires_at is stored with the configured default TTL
\* and one with a future expires_at with TTL = expires_at - now; for the
\* repository's and for the service's writer alike.
CacheWriteTTL ==
  [][(/\ req[1] = Idle
      /\ req'[1].op \in {"LinksRepository.set_link_to_cache",
                         "LinksService.set_link_to_cache"}) =>
       LET entry == cache'[req'[1].short_code]
           expires_at == req'[1].expires_at
       IN IF expires_at = NoTime
            THEN entry = [present |-> TRUE, link |-> req'[1].result,
                          until |-> now + EXPIRES_IN_SECONDS]
          ELSE IF expires_at - now <= 0
            THEN ~entry.present
          ELSE entry = [present |-> TRUE, link |-> req'[1].result,
                        until |-> expires_at]]_vars

\* C37: a link that served a successful redirect less than the
\* unused-link threshold ago is not deactivated by the unused-link sweep,
\* whether the redirect was answered from the Cache or from the Store.
\* Here the redirect has just been answered (its frame is still there, so
\* no time has passed) when the pass runs its UPDATE.
RecentlyServedIsKept ==
  [][(/\ req[1].pc = "done"
      /\ req[1].op = "redirect"
      /\ req[1].status = 307
      /\ sweep["unused"].pc = "sleep"
      /\ sweep'["unused"].pc = "evict") =>
       req[1].short_code \notin sweep'["unused"].removed]_vars

\* C38: no operation turns is_active from false to true, and update,
\* delete and record_click neither modify nor remove a record while it is
\* inactive: every field of an inactive record stays as the sweep left it.
InactiveIsFrozen ==
  [][\A l \in links : ~l.is_active => l \in links']_vars

\* C38, its case: an update has succeeded on the active record of a code
\* that also has a deactivated record.
InactiveKeptWitness ==
  /\ req[1].pc = "done"
  /\ req[1].op = "update"
  /\ req[1].status = 204
  /\ \E l \in links : l.short_code = req[1].short_code /\ ~l.is_active
  /\ \E l \in links : l.short_code = req[1].short_code /\ l.is_active

\* C39: the cache writes of a request whose Store transaction is rolled
\* back do not leave the Cache contradicting the Store: after the failed
\* request every entry it wrote has the original_url, the expires_at and
\* the clicks of the committed active record with that code.
RolledBackCacheAgrees ==
  [][(/\ req[1] = Idle
      /\ req'[1].status >= 400
      /\ links' = links) =>
       \A k \in Keys :
         (cache'[k].present /\ cache'[k] # cache[k]) =>
           \E l \in links' :
             /\ l.short_code = k
             /\ l.is_active
             /\ l.original_url = cache'[k].link.original_url
             /\ l.expires_at = cache'[k].link.expires_at
             /\ l.clicks = cache'[k].link.clicks]_vars

====
